---- MODULE Spec2Model ----
(***************************************************************************)
(* Booking lifecycle and availability logic of YOS_rentals: the ceo app    *)
(* (Car / Booking / Payment / BookingHistory) and the vehicle app          *)
(* (Vehicle / Booking / Payment / VehicleAvailability / MaintenanceRecord).*)
(*                                                                         *)
(* Time is counted in half days (12 h); a date is a day index, the         *)
(* half-day count divided by two.  Money is counted in hundredths of the   *)
(* currency unit, the two decimal places of the DecimalFields.             *)
(* Handlers are modelled statement by statement as the request             *)
(* that runs them; each ceo handler and each vehicle handler other than    *)
(* booking creation is one step.  Booking creation in the vehicle app is   *)
(* two steps (validate, then create), as in the serializer.                *)
(* Money arithmetic is exact decimal arithmetic (0.1 and 0.2 are read as   *)
(* the decimals 10 % and 20 %).  A row that violates a NOT NULL column     *)
(* declared in models.py is refused by the database, and the               *)
(* transaction.atomic block around it is rolled back.                      *)
(***************************************************************************)
EXTENDS Integers, Sequences, FiniteSets, TLC

\* ---------------------------------------------------------------- bounds
MaxTime     == 4      \* last half-day instant the clock reaches
MaxBookings == 2      \* booking rows over both apps
MaxPayments == 1      \* vehicle-app Payment rows
MaxInflight == 2      \* validated, not yet created vehicle booking requests
MaxMaint    == 1      \* MaintenanceRecord rows
MaxUpdates  == 1      \* PUT/PATCH requests accepted on vehicle-app bookings
MaxReading  == 2      \* transition requests between their load and their save
StepSeconds == 30     \* seconds the clock of the rate limiter advances in one step
MaxSeconds  == 60     \* last instant the clock of the rate limiter reaches

Cars     == {1, 2}
Vehicles == {1, 2}

\* the bodies of booking requests, <<resource, start, end>> in half days:
\* [1,3) and [2,4) overlap, [3,4) starts where [1,3) ends, [3,3) is empty
Requests == {<<1, 1, 3>>, <<1, 2, 4>>, <<1, 3, 4>>, <<1, 3, 3>>, <<2, 2, 4>>}

\* the bodies of maintenance requests, <<vehicle, scheduled day>>
MaintRequests == {<<2, 1>>}

\* the amounts of payment requests
Amounts == {10000, 30000}

CarRate        == [c \in Cars |-> 10000]
VehicleRate    == [v \in Vehicles |-> 10000]
VehicleDeposit == [v \in Vehicles |-> 10000]

\* ------------------------------------------------------------- vocabulary
\* the callers whose queryset contains the booking: staff (and admin), and
\* the customer who owns it
Roles == {"staff", "customer"}
CeoStatuses == {"pending", "confirmed", "active", "completed", "cancelled", "no_show"}
BOOKING_STATUS == {"pending", "confirmed", "in_progress", "completed", "cancelled"}
VEHICLE_STATUS_CHOICES == {"available", "in_use", "maintenance", "unavailable"}

VARIABLES
  now,            \* timezone.now(), in half days
  cars,           \* ceo Car.status per car
  ceoBookings,    \* ceo Booking rows, id = index
  ceoPayments,    \* ceo Payment rows, id = index
  customer,       \* total_bookings and total_spent of the Customer row (the
                  \* ceo bookings of the model belong to one customer)
  vehicles,       \* vehicle-app Vehicle.status per vehicle
  vehBookings,    \* vehicle-app Booking rows, id = index
  vehPayments,    \* vehicle-app Payment rows
  availability,   \* VehicleAvailability rows
  maintenance,    \* MaintenanceRecord rows
  inflight,       \* vehicle booking requests that passed validate
  updates,        \* PUT/PATCH requests accepted on vehicle-app bookings so far
  receipts,       \* vehicle-app Receipt rows
  rateRequests,   \* RateLimitMiddleware.requests: key -> count, timestamp
  rateTime,       \* time.time() as the middleware sees it, in seconds
  admitted,       \* per key, the requests that passed process_request at or
                  \* after the timestamp of the key's current entry
  reading,        \* transition requests that have loaded their booking
                  \* (get_object) and have not written yet
  last            \* the request handled by the last step, its outcome, the
                  \* BookingHistory rows it appended, the Payment.status
                  \* it wrote, the amount of a payment request, the role
                  \* of the caller of a confirm, what send_mail did and the
                  \* EmailLog/SMSLog rows the request appended

vars == <<now, cars, ceoBookings, ceoPayments, customer, vehicles,
          vehBookings, vehPayments, availability, maintenance, inflight, updates,
          receipts, reading, rateRequests, rateTime, admitted, last>>

ceoVars == <<cars, ceoBookings, ceoPayments, customer>>
rateVars == <<rateRequests, rateTime, admitted>>
vehVars == <<vehicles, vehBookings, vehPayments, availability, maintenance, inflight,
            updates>>

Max(a, b) == IF a >= b THEN a ELSE b

\* timedelta.days of (e - s): whole days, rounded towards minus infinity
Days(s, e) == (e - s) \div 2

\* datetime.date(): the day an instant falls on
DateOf(t) == t \div 2

Req(op, app, id, ok, res, s, e) ==
  [op |-> op, app |-> app, id |-> id, ok |-> ok, res |-> res, start |-> s, end |-> e,
   why |-> "", history |-> <<>>, payment |-> "", amount |-> 0, role |-> "",
   mail |-> "", logs |-> <<>>]

ReqH(op, app, id, ok, res, s, e, rows) ==
  [Req(op, app, id, ok, res, s, e) EXCEPT !.history = rows]

\* booking rows of both apps, and requests on their way to become one
TotalBookings == Len(ceoBookings) + Len(vehBookings) + Len(inflight)

\* ======================================================== ceo app
\* ceo Booking.save(): duration_days, subtotal and total_amount are
\* recomputed from the dates, the daily rate and the stored tax amount.
CeoSave(b) ==
  LET duration == Max(1, Days(b.start, b.end))
      sub      == b.daily_rate * duration
  IN  IF b.daily_rate # 0
        THEN [b EXCEPT !.duration_days = duration, !.subtotal = sub,
                       !.total_amount = sub + b.tax_amount]
        ELSE [b EXCEPT !.duration_days = duration]

\* pre_save receiver create_booking_history: the rows it adds to
\* BookingHistory when the status of a stored booking changes
SignalHistory(id, old, new) ==
  IF old # new THEN <<[booking |-> id, status |-> new]>> ELSE <<>>

\* pre_save receiver create_booking_history: the car status it writes
SignalCars(c, car, old, new) ==
  IF old # new /\ new = "confirmed" THEN [c EXCEPT ![car] = "rented"]
  ELSE IF old # new /\ new \in {"completed", "cancelled"}
         THEN [c EXCEPT ![car] = "available"]
  ELSE c

\* the filter of ceo BookingSerializer.validate: bookings that block
\* car `car` for the range [s, e)
CeoOverlapping(car, s, e) ==
  {i \in DOMAIN ceoBookings :
      /\ ceoBookings[i].car = car
      /\ ceoBookings[i].status \in {"confirmed", "active"}
      /\ ceoBookings[i].start < e
      /\ ceoBookings[i].end > s}

\* Booking.can_cancel
can_cancel(b) == b.status \in {"pending", "confirmed"} /\ now < b.start

\* Customer.update_stats
update_stats(c, booking_amount) ==
  [total_bookings |-> c.total_bookings + 1,
   total_spent    |-> c.total_spent + booking_amount]

\* POST /bookings/ : BookingCreateSerializer.create (it has no validate)
CeoCreate(car, s, e) ==
  /\ TotalBookings < MaxBookings
  /\ LET rate     == CarRate[car]
         duration == Max(1, Days(s, e))
         sub      == rate * duration
         tax      == (sub * 10) \div 100
         id       == Len(ceoBookings) + 1
         b        == CeoSave([car |-> car, start |-> s, end |-> e,
                              status |-> "pending",
                              payment |-> Len(ceoPayments) + 1,
                              daily_rate |-> rate, duration_days |-> duration,
                              subtotal |-> sub, tax_amount |-> tax,
                              total_amount |-> sub + tax])
     IN  /\ ceoPayments' = Append(ceoPayments, [booking |-> id])
         /\ customer' = update_stats(customer, sub + tax)
         /\ ceoBookings' = Append(ceoBookings, b)
         /\ cars' = [cars EXCEPT ![car] = "rented"]
         /\ last' = [ReqH("create", "ceo", id, TRUE, car, s, e,
                          <<[booking |-> id, status |-> b.status]>>)
                       EXCEPT !.payment = "pending"]
  /\ UNCHANGED <<now, rateVars, receipts, reading, vehVars>>

\* what send_mail does in a request: it delivers, or it raises
MailOutcomes == {"sent", "failed"}

\* _send_confirmation_notifications with the exception of send_mail left to
\* propagate: no log row, and the request ends in an error
send_notifications_uncaught(mail) ==
  [ok   |-> mail = "sent",
   logs |-> IF mail = "sent"
              THEN <<[log |-> "EmailLog", status |-> "sent"],
                     [log |-> "SMSLog", status |-> "sent"]>>
              ELSE <<>>]

\* BookingViewSet._send_confirmation_notifications: send_mail and the
\* EmailLog row in a try whose except writes an EmailLog row with status
\* failed; then the SMS, which has no provider and only writes its SMSLog
\* row.  It returns normally either way.
send_confirmation_notifications(mail) ==
  [ok   |-> TRUE,
   logs |-> <<[log |-> "EmailLog", status |-> mail],
              [log |-> "SMSLog", status |-> "sent"]>>]

\* POST /bookings/{id}/confirm/
CeoConfirm(id, role, mail) ==
  /\ id \in DOMAIN ceoBookings
  /\ role \in Roles
  /\ mail \in MailOutcomes
  /\ LET b == ceoBookings[id] IN
     IF b.status # "pending"
       THEN /\ last' = [Req("confirm", "ceo", id, FALSE, b.car, b.start, b.end)
                          EXCEPT !.role = role]
            /\ UNCHANGED ceoVars
       ELSE /\ LET nb == CeoSave([b EXCEPT !.status = "confirmed"]) IN
               /\ ceoBookings' = [ceoBookings EXCEPT ![id] = nb]
               /\ cars' = SignalCars(cars, nb.car, b.status, nb.status)
               /\ LET n == send_confirmation_notifications(mail) IN
                  last' = [ReqH("confirm", "ceo", id, n.ok, b.car, b.start, b.end,
                                Append(SignalHistory(id, b.status, nb.status),
                                       [booking |-> id, status |-> "confirmed"]))
                             EXCEPT !.role = role, !.mail = mail,
                                    !.logs = n.logs]
            /\ UNCHANGED <<ceoPayments, customer>>
  /\ UNCHANGED <<now, rateVars, receipts, reading, vehVars>>

\* POST /bookings/{id}/cancel/
CeoCancel(id) ==
  /\ id \in DOMAIN ceoBookings
  /\ LET b == ceoBookings[id] IN
     IF ~can_cancel(b)
       THEN /\ last' = Req("cancel", "ceo", id, FALSE, b.car, b.start, b.end)
            /\ UNCHANGED ceoVars
       ELSE /\ LET nb == CeoSave([b EXCEPT !.status = "cancelled"]) IN
               /\ ceoBookings' = [ceoBookings EXCEPT ![id] = nb]
               /\ cars' = [SignalCars(cars, nb.car, b.status, nb.status)
                             EXCEPT ![nb.car] = "available"]
               /\ last' = ReqH("cancel", "ceo", id, TRUE, b.car, b.start, b.end,
                               Append(SignalHistory(id, b.status, nb.status),
                                      [booking |-> id, status |-> "cancelled"]))
            /\ UNCHANGED <<ceoPayments, customer>>
  /\ UNCHANGED <<now, rateVars, receipts, reading, vehVars>>

\* checkout with booking.save() moved in front of the status guard: the
\* rejected request has already stored the booking as active
CeoCheckoutSaveFirst(id) ==
  /\ id \in DOMAIN ceoBookings
  /\ LET b  == ceoBookings[id]
         nb == CeoSave([b EXCEPT !.status = "active"])
     IN
     /\ ceoBookings' = [ceoBookings EXCEPT ![id] = nb]
     /\ cars' = SignalCars(cars, nb.car, b.status, nb.status)
     /\ last' = ReqH("checkout", "ceo", id, b.status = "confirmed",
                     b.car, b.start, b.end,
                     IF b.status = "confirmed"
                       THEN Append(SignalHistory(id, b.status, nb.status),
                                   [booking |-> id, status |-> "active"])
                       ELSE SignalHistory(id, b.status, nb.status))
     /\ UNCHANGED <<ceoPayments, customer>>
  /\ UNCHANGED <<now, rateVars, receipts, reading, vehVars>>

\* POST /bookings/{id}/checkout/
CeoCheckout(id) ==
  /\ id \in DOMAIN ceoBookings
  /\ LET b == ceoBookings[id] IN
     IF b.status # "confirmed"
       THEN /\ last' = Req("checkout", "ceo", id, FALSE, b.car, b.start, b.end)
            /\ UNCHANGED ceoVars
       ELSE /\ LET nb == CeoSave([b EXCEPT !.status = "active"]) IN
               /\ ceoBookings' = [ceoBookings EXCEPT ![id] = nb]
               /\ cars' = SignalCars(cars, nb.car, b.status, nb.status)
               /\ last' = ReqH("checkout", "ceo", id, TRUE, b.car, b.start, b.end,
                               Append(SignalHistory(id, b.status, nb.status),
                                      [booking |-> id, status |-> "active"]))
            /\ UNCHANGED <<ceoPayments, customer>>
  /\ UNCHANGED <<now, rateVars, receipts, reading, vehVars>>

\* POST /bookings/{id}/checkin/
CeoCheckin(id) ==
  /\ id \in DOMAIN ceoBookings
  /\ LET b == ceoBookings[id] IN
     IF b.status # "active"
       THEN /\ last' = Req("checkin", "ceo", id, FALSE, b.car, b.start, b.end)
            /\ UNCHANGED ceoVars
       ELSE /\ LET nb == CeoSave([b EXCEPT !.status = "completed"]) IN
               /\ ceoBookings' = [ceoBookings EXCEPT ![id] = nb]
               /\ cars' = [SignalCars(cars, nb.car, b.status, nb.status)
                             EXCEPT ![nb.car] = "available"]
               /\ last' = ReqH("checkin", "ceo", id, TRUE, b.car, b.start, b.end,
                               Append(SignalHistory(id, b.status, nb.status),
                                      [booking |-> id, status |-> "completed"]))
            /\ UNCHANGED <<ceoPayments, customer>>
  /\ UNCHANGED <<now, rateVars, receipts, reading, vehVars>>

\* GET /payments/gateway/?reference=... : PaymentGatewayView.get for the
\* reference stored on the payment of booking `id`; `outcome` is what the
\* gateway answers
CeoVerify(id, outcome) ==
  /\ id \in DOMAIN ceoBookings
  /\ outcome \in {"success", "failed", "error"}
  /\ LET b == ceoBookings[id] IN
     IF outcome = "error"
       THEN /\ last' = Req("verify", "ceo", id, FALSE, b.car, b.start, b.end)
            /\ UNCHANGED ceoVars
       ELSE IF outcome = "failed"
       THEN /\ last' = [Req("verify", "ceo", id, FALSE, b.car, b.start, b.end)
                          EXCEPT !.payment = "failed"]
            /\ UNCHANGED ceoVars
       ELSE /\ LET nb == CeoSave([b EXCEPT !.status = "confirmed"]) IN
               /\ ceoBookings' = [ceoBookings EXCEPT ![id] = nb]
               /\ cars' = SignalCars(cars, nb.car, b.status, nb.status)
               /\ \E mail \in MailOutcomes :
                    LET n == send_confirmation_notifications(mail) IN
                    last' = [ReqH("verify", "ceo", id, n.ok, b.car, b.start,
                                  b.end, SignalHistory(id, b.status, nb.status))
                               EXCEPT !.payment = "completed", !.mail = mail,
                                      !.logs = n.logs]
            /\ UNCHANGED <<ceoPayments, customer>>
  /\ UNCHANGED <<now, rateVars, receipts, reading, vehVars>>

\* the bodies a PUT/PATCH of a booking can carry: a status, or a car with
\* a date range
CeoPatches ==
  [kind : {"status"}, status : CeoStatuses, car : {0}, start : {0}, end : {0}]
  \cup
  {[kind |-> "dates", status |-> "", car |-> r[1], start |-> r[2], end |-> r[3]] :
      r \in Requests}

\* PUT/PATCH /bookings/{id}/ : ceo BookingSerializer.validate, then
\* ModelSerializer.update and Booking.save
CeoUpdate(id, data) ==
  /\ id \in DOMAIN ceoBookings
  /\ data \in CeoPatches
  /\ LET b == ceoBookings[id] IN
     IF data.kind = "dates" /\ CeoOverlapping(data.car, data.start, data.end) # {}
       THEN /\ last' = [Req("update", "ceo", id, FALSE,
                               data.car, data.start, data.end)
                          EXCEPT !.why = "conflict"]
            /\ UNCHANGED ceoVars
       ELSE /\ LET nb == CeoSave(IF data.kind = "status"
                                   THEN [b EXCEPT !.status = data.status]
                                   ELSE [b EXCEPT !.car = data.car,
                                                  !.start = data.start,
                                                  !.end = data.end])
               IN
               /\ ceoBookings' = [ceoBookings EXCEPT ![id] = nb]
               /\ cars' = SignalCars(cars, nb.car, b.status, nb.status)
               /\ last' = [ReqH("update", "ceo", id, TRUE, nb.car, nb.start, nb.end,
                                SignalHistory(id, b.status, nb.status))
                             EXCEPT !.why = IF data.kind = "dates" THEN "ok" ELSE ""]
            /\ UNCHANGED <<ceoPayments, customer>>
  /\ UNCHANGED <<now, rateVars, receipts, reading, vehVars>>

\* ==================================================== vehicle app
\* Vehicle.update_status
update_status(vs, v, new_status) == [vs EXCEPT ![v] = new_status]

\* vehicle Booking.save(): balance_due is recomputed on every save
VehSave(b) == [b EXCEPT !.balance_due = b.total_amount - b.amount_paid]

\* VehicleAvailability.save(): a row that covers today writes its status
\* to the vehicle
AvailabilitySave(vs, row) ==
  IF row.start <= DateOf(now) /\ DateOf(now) <= row.end
    THEN [vs EXCEPT ![row.vehicle] = row.status]
    ELSE vs

\* the vehicle filter with __lte/__gte lookups: ranges that only touch
\* count as overlapping
VehOverlappingInclusive(v, s, e) ==
  {i \in DOMAIN vehBookings :
      /\ vehBookings[i].vehicle = v
      /\ vehBookings[i].status \in {"confirmed", "in_progress"}
      /\ vehBookings[i].pickup <= e
      /\ vehBookings[i].ret >= s}

\* the filter of vehicle BookingSerializer.validate: bookings that block
\* vehicle `v` for the range [s, e)
VehOverlapping(v, s, e) ==
  {i \in DOMAIN vehBookings :
      /\ vehBookings[i].vehicle = v
      /\ vehBookings[i].status \in {"confirmed", "in_progress"}
      /\ vehBookings[i].pickup < e
      /\ vehBookings[i].ret > s}

\* the maintenance filter of VehicleViewSet.available_vehicles:
\* maintenance windows of vehicle `v` that overlap [s, e)
MaintenanceWindows(v, s, e) ==
  {i \in DOMAIN availability :
      /\ availability[i].vehicle = v
      /\ availability[i].status = "maintenance"
      /\ availability[i].start * 2 < e
      /\ availability[i].end * 2 > s}

\* vehicle BookingSerializer.validate on a body with both dates and a
\* vehicle: "ok" or the reason of the ValidationError
VehValidateResult(v, s, e) ==
  IF s >= e THEN "bad_range"
  ELSE IF s < now THEN "past"
  ELSE IF VehOverlapping(v, s, e) # {} THEN "conflict"
  ELSE "ok"

\* the statuses a creation request sends (status is a writable field)
CreateStatuses == {"pending", "confirmed"}

\* POST /bookings/ , first half: BookingSerializer.validate
VehValidate(v, s, e, st) ==
  /\ st \in CreateStatuses
  /\ TotalBookings < MaxBookings
  /\ Len(inflight) < MaxInflight
  /\ LET res == VehValidateResult(v, s, e)
     IN
     /\ inflight' = IF res = "ok"
                      THEN Append(inflight,
                                  [vehicle |-> v, pickup |-> s, ret |-> e,
                                   status |-> st, rental_days |-> Days(s, e)])
                      ELSE inflight
     /\ last' = [Req("validate", "veh", 0, res = "ok", v, s, e)
                   EXCEPT !.why = res]
  /\ UNCHANGED <<now, rateVars, receipts, reading, ceoVars, vehicles, vehBookings, vehPayments,
                 availability, maintenance, updates>>

RemoveAt(seq, i) == SubSeq(seq, 1, i - 1) \o SubSeq(seq, i + 1, Len(seq))

\* POST /bookings/ , second half: BookingSerializer.create of a request
\* that passed validate
VehCreate(i) ==
  /\ i \in DOMAIN inflight
  /\ LET d        == inflight[i]
         v        == d.vehicle
         sub      == VehicleRate[v] * d.rental_days
         deposit  == VehicleDeposit[v]
         id       == Len(vehBookings) + 1
         b        == VehSave([vehicle |-> v, pickup |-> d.pickup, ret |-> d.ret,
                              status |-> d.status, payment_status |-> "pending",
                              rental_days |-> d.rental_days,
                              daily_rate |-> VehicleRate[v],
                              subtotal |-> sub, security_deposit |-> deposit,
                              late_fee |-> 0, total_amount |-> sub + deposit,
                              amount_paid |-> 0, balance_due |-> sub + deposit])
         row      == [vehicle |-> v, start |-> DateOf(b.pickup),
                      end |-> DateOf(b.ret), status |-> "in_use", booking |-> id]
     IN
     /\ vehBookings' = Append(vehBookings, b)
     /\ availability' = Append(availability, row)
     /\ vehicles' = update_status(AvailabilitySave(vehicles, row), v, "in_use")
     /\ inflight' = RemoveAt(inflight, i)
     /\ last' = Req("create", "veh", id, TRUE, v, d.pickup, d.ret)
  /\ UNCHANGED <<now, rateVars, receipts, reading, ceoVars, vehPayments, maintenance, updates>>

\* POST /bookings/{id}/cancel_booking/
VehCancel(id) ==
  /\ id \in DOMAIN vehBookings
  /\ LET b == vehBookings[id] IN
     IF b.status \in {"completed", "cancelled"}
       THEN /\ last' = Req("cancel", "veh", id, FALSE, b.vehicle, b.pickup, b.ret)
            /\ UNCHANGED vehVars
       ELSE /\ LET hours_before == (b.pickup - now) * 12
                   fee == (b.total_amount * 20) \div 100
                   fb  == IF hours_before < 48
                            THEN [b EXCEPT !.late_fee = fee,
                                           !.total_amount = b.total_amount + fee,
                                           !.balance_due = b.balance_due + fee]
                            ELSE b
               IN  vehBookings' = [vehBookings EXCEPT
                                     ![id] = VehSave([fb EXCEPT !.status = "cancelled"])]
            /\ vehicles' = update_status(vehicles, b.vehicle, "available")
            /\ availability' = SelectSeq(availability, LAMBDA row : row.booking # id)
            /\ last' = Req("cancel", "veh", id, TRUE, b.vehicle, b.pickup, b.ret)
            /\ UNCHANGED <<vehPayments, maintenance, inflight, updates>>
  /\ UNCHANGED <<now, rateVars, receipts, reading, ceoVars>>

\* index of the first VehicleAvailability row of booking `id`, 0 if none
FirstRowOf(id) ==
  LET rows == {i \in DOMAIN availability : availability[i].booking = id}
  IN  IF rows = {} THEN 0
      ELSE CHOOSE i \in rows :
             \A j \in rows : availability[i].start < availability[j].start
                             \/ (availability[i].start = availability[j].start /\ i <= j)

\* POST /bookings/{id}/complete_booking/
VehComplete(id) ==
  /\ id \in DOMAIN vehBookings
  /\ LET b == vehBookings[id] IN
     IF b.status # "in_progress"
       THEN /\ last' = Req("complete", "veh", id, FALSE, b.vehicle, b.pickup, b.ret)
            /\ UNCHANGED vehVars
       ELSE /\ vehBookings' = [vehBookings EXCEPT
                                 ![id] = VehSave([b EXCEPT !.status = "completed"])]
            /\ LET k   == FirstRowOf(id)
                   vs1 == update_status(vehicles, b.vehicle, "available")
               IN  IF k = 0
                     THEN /\ vehicles' = vs1
                          /\ UNCHANGED availability
                     ELSE LET row == [availability[k] EXCEPT
                                        !.end = DateOf(now), !.status = "available"]
                          IN  /\ availability' = [availability EXCEPT ![k] = row]
                              /\ vehicles' = AvailabilitySave(vs1, row)
            /\ last' = Req("complete", "veh", id, TRUE, b.vehicle, b.pickup, b.ret)
            /\ UNCHANGED <<vehPayments, maintenance, inflight, updates>>
  /\ UNCHANGED <<now, rateVars, receipts, reading, ceoVars>>

\* POST /payments/ : vehicle PaymentSerializer.create
\* PaymentSerializer.create (transaction.atomic).  The booking is charged and
\* saved first.  When the balance is settled the receipt is inserted BEFORE the
\* payment row exists, with payment = self.instance, which is None on create;
\* Receipt.payment is a NOT NULL foreign key, so the insert is refused and the
\* atomic block rolls the booking update back: nothing of the request persists.
\* A payment that leaves a balance creates no receipt and is stored.
VehPayment(id, amount) ==
  /\ id \in DOMAIN vehBookings
  /\ amount \in Amounts
  /\ Len(vehPayments) < MaxPayments
  /\ LET b    == vehBookings[id]
         paid == b.amount_paid + amount
         due  == b.total_amount - paid
         nb   == [b EXCEPT !.amount_paid = paid, !.balance_due = due,
                           !.payment_status = "pending"]
     IN
     IF due <= 0
       THEN /\ last' = [Req("payment", "veh", id, FALSE, b.vehicle, b.pickup,
                            b.ret) EXCEPT !.why = "receipt", !.amount = amount]
            /\ UNCHANGED <<vehBookings, vehPayments, receipts>>
       ELSE /\ vehBookings' = [vehBookings EXCEPT ![id] = VehSave(nb)]
            /\ vehPayments' = Append(vehPayments,
                                     [booking |-> id, amount |-> amount])
            /\ receipts' = receipts
            /\ last' = [Req("payment", "veh", id, TRUE, b.vehicle, b.pickup,
                            b.ret) EXCEPT !.amount = amount]
  /\ UNCHANGED <<now, rateVars, reading, ceoVars, vehicles, availability, maintenance,
                 inflight, updates>>

\* PUT/PATCH /payments/{id}/ : PaymentViewSet is a ModelViewSet and
\* PaymentSerializer overrides only create, so ModelSerializer.update writes
\* the new amount to the Payment row and nothing to the booking
VehPaymentUpdate(k, amount) ==
  /\ k \in DOMAIN vehPayments
  /\ amount \in Amounts
  /\ vehPayments' = [vehPayments EXCEPT ![k].amount = amount]
  /\ LET b == vehBookings[vehPayments[k].booking] IN
     last' = [Req("payment_update", "veh", vehPayments[k].booking, TRUE,
                  b.vehicle, b.pickup, b.ret) EXCEPT !.amount = amount]
  /\ UNCHANGED <<now, rateVars, receipts, reading, ceoVars, vehicles, vehBookings,
                 availability, maintenance, inflight, updates>>

\* DELETE /payments/{id}/ : ModelViewSet.destroy deletes the Payment row
VehPaymentDelete(k) ==
  /\ k \in DOMAIN vehPayments
  /\ vehPayments' = RemoveAt(vehPayments, k)
  /\ LET b == vehBookings[vehPayments[k].booking] IN
     last' = [Req("payment_delete", "veh", vehPayments[k].booking, TRUE,
                  b.vehicle, b.pickup, b.ret)
                EXCEPT !.amount = vehPayments[k].amount]
  /\ UNCHANGED <<now, rateVars, receipts, reading, ceoVars, vehicles, vehBookings,
                 availability, maintenance, inflight, updates>>

\* the bodies a PUT/PATCH of a vehicle-app booking can carry: a status, or
\* a vehicle with a date range
VehPatches ==
  [kind : {"status"}, status : BOOKING_STATUS, vehicle : {0}, pickup : {0}, ret : {0}]
  \cup
  {[kind |-> "dates", status |-> "", vehicle |-> r[1], pickup |-> r[2], ret |-> r[3]] :
      r \in Requests}

\* PUT/PATCH /bookings/{id}/ : vehicle BookingSerializer.validate, then
\* ModelSerializer.update and Booking.save
VehUpdate(id, data) ==
  /\ id \in DOMAIN vehBookings
  /\ data \in VehPatches
  /\ LET b == vehBookings[id] IN
     IF data.kind = "dates"
        /\ VehValidateResult(data.vehicle, data.pickup, data.ret) # "ok"
       THEN /\ last' = [Req("update", "veh", id, FALSE,
                               data.vehicle, data.pickup, data.ret)
                          EXCEPT !.why = VehValidateResult(data.vehicle, data.pickup,
                                                           data.ret)]
            /\ UNCHANGED <<vehBookings, updates>>
       ELSE LET nb == VehSave(IF data.kind = "status"
                                THEN [b EXCEPT !.status = data.status]
                                ELSE [b EXCEPT !.vehicle = data.vehicle,
                                               !.pickup = data.pickup,
                                               !.ret = data.ret,
                                               !.rental_days =
                                                  Days(data.pickup, data.ret)])
            IN  /\ updates < MaxUpdates
                /\ updates' = updates + 1
                /\ vehBookings' = [vehBookings EXCEPT ![id] = nb]
                /\ last' = [Req("update", "veh", id, TRUE,
                                 nb.vehicle, nb.pickup, nb.ret)
                              EXCEPT !.why = IF data.kind = "dates" THEN "ok" ELSE ""]
  /\ UNCHANGED <<now, rateVars, receipts, reading, ceoVars, vehicles, vehPayments, availability,
                 maintenance, inflight>>

\* celery task update_vehicle_statuses
UpdateVehicleStatuses ==
  LET ended   == {i \in DOMAIN vehBookings :
                     vehBookings[i].ret < now /\ vehBookings[i].status = "in_progress"}
      started == {i \in DOMAIN vehBookings :
                     /\ vehBookings[i].pickup <= now
                     /\ vehBookings[i].ret > now
                     /\ vehBookings[i].status = "confirmed"}
  IN
  /\ vehBookings' =
       [i \in DOMAIN vehBookings |->
          IF i \in ended THEN VehSave([vehBookings[i] EXCEPT !.status = "completed"])
          ELSE IF i \in started
                 THEN VehSave([vehBookings[i] EXCEPT !.status = "in_progress"])
          ELSE vehBookings[i]]
  /\ vehicles' =
       [v \in Vehicles |->
          IF \E i \in started : vehBookings[i].vehicle = v THEN "in_use"
          ELSE IF \E i \in ended : vehBookings[i].vehicle = v THEN "available"
          ELSE vehicles[v]]
  /\ last' = Req("task", "veh", 0, TRUE, 0, 0, 0)
  /\ UNCHANGED <<now, rateVars, receipts, reading, ceoVars, vehPayments, availability, maintenance, inflight,
                 updates>>

\* POST /maintenance/ : MaintenanceRecordSerializer.create, scheduled on
\* day `d`
MaintenanceCreate(v, d) ==
  /\ Len(maintenance) < MaxMaint
  /\ LET row == [vehicle |-> v, start |-> d, end |-> d + 1,
                 status |-> "maintenance", booking |-> 0]
     IN
     /\ availability' = Append(availability, row)
     /\ vehicles' = update_status(AvailabilitySave(vehicles, row), v, "maintenance")
     /\ maintenance' = Append(maintenance,
                              [vehicle |-> v, scheduled_date |-> d,
                               is_completed |-> FALSE])
  /\ last' = Req("maintenance", "veh", 0, TRUE, v, d * 2, (d + 1) * 2)
  /\ UNCHANGED <<now, rateVars, receipts, reading, ceoVars, vehBookings, vehPayments, inflight, updates>>

\* POST /maintenance/{id}/complete_maintenance/ ; no VehicleAvailability
\* row carries the maintenance reference, so none is updated
CompleteMaintenance(m) ==
  /\ m \in DOMAIN maintenance
  /\ IF maintenance[m].is_completed
       THEN /\ last' = Req("complete_maintenance", "veh", m, FALSE,
                           maintenance[m].vehicle, 0, 0)
            /\ UNCHANGED <<vehicles, maintenance>>
       ELSE /\ maintenance' = [maintenance EXCEPT ![m].is_completed = TRUE]
            /\ vehicles' = update_status(vehicles, maintenance[m].vehicle, "available")
            /\ last' = Req("complete_maintenance", "veh", m, TRUE,
                           maintenance[m].vehicle, 0, 0)
  /\ UNCHANGED <<now, rateVars, receipts, reading, ceoVars, vehBookings, vehPayments, availability, inflight,
                 updates>>

\* the clock advances by half a day
Tick ==
  /\ now < MaxTime
  /\ now' = now + 1
  /\ last' = Req("tick", "", 0, TRUE, 0, 0, 0)
  /\ UNCHANGED <<rateVars, receipts, reading, ceoVars, vehVars>>

\* ------------------------------------------------- concurrent transitions
\* The transition handlers run in separate worker threads/processes, without
\* transaction.atomic and without select_for_update: between get_object()
\* and booking.save() of one request another request can run.  A transition
\* request is therefore two steps: Load (get_object, the guard, the changes to
\* the in-memory instance) and Store (save() and everything after it).

\* first half of POST /bookings/{id}/confirm/ or /cancel/ (ceo app)
CeoLoad(op, id) ==
  /\ id \in DOMAIN ceoBookings
  /\ op \in {"confirm", "cancel"}
  /\ LET b     == ceoBookings[id]
         guard == IF op = "confirm" THEN b.status = "pending" ELSE can_cancel(b)
         to    == IF op = "confirm" THEN "confirmed" ELSE "cancelled"
     IN
     IF ~guard
       THEN /\ last' = Req(op, "ceo", id, FALSE, b.car, b.start, b.end)
            /\ UNCHANGED reading
       ELSE /\ Len(reading) < MaxReading
            /\ reading' = Append(reading,
                                 [app |-> "ceo", op |-> op, id |-> id,
                                  instance |-> [b EXCEPT !.status = to]])
            /\ last' = Req("load", "ceo", id, TRUE, b.car, b.start, b.end)
  /\ UNCHANGED <<now, rateVars, receipts, ceoVars, vehVars>>

\* second half: booking.save() writes the whole in-memory row; the pre_save
\* receiver compares with the row in the database; then the explicit history
\* row, and on cancel the car is set available
CeoStore(i) ==
  /\ i \in DOMAIN reading
  /\ reading[i].app = "ceo"
  /\ LET r   == reading[i]
         old == ceoBookings[r.id]
         nb  == CeoSave(r.instance)
         sc  == SignalCars(cars, nb.car, old.status, nb.status)
     IN
     /\ ceoBookings' = [ceoBookings EXCEPT ![r.id] = nb]
     /\ cars' = IF r.op = "cancel" THEN [sc EXCEPT ![nb.car] = "available"] ELSE sc
     /\ \E mail \in MailOutcomes :
          LET n == send_confirmation_notifications(mail) IN
          last' = [ReqH(r.op, "ceo", r.id, TRUE, nb.car, nb.start, nb.end,
                        Append(SignalHistory(r.id, old.status, nb.status),
                               [booking |-> r.id, status |-> nb.status]))
                     EXCEPT !.mail = IF r.op = "confirm" THEN mail ELSE "",
                            !.logs = IF r.op = "confirm" THEN n.logs ELSE <<>>]
  /\ reading' = RemoveAt(reading, i)
  /\ UNCHANGED <<now, rateVars, receipts, ceoPayments, customer, vehVars>>

\* first half of POST /bookings/{id}/cancel_booking/ (vehicle app)
VehCancelLoad(id) ==
  /\ id \in DOMAIN vehBookings
  /\ LET b == vehBookings[id] IN
     IF b.status \in {"completed", "cancelled"}
       THEN /\ last' = Req("cancel", "veh", id, FALSE, b.vehicle, b.pickup, b.ret)
            /\ UNCHANGED reading
       ELSE LET hours_before == (b.pickup - now) * 12
                fee == (b.total_amount * 20) \div 100
                fb  == IF hours_before < 48
                         THEN [b EXCEPT !.late_fee = fee,
                                        !.total_amount = b.total_amount + fee,
                                        !.balance_due = b.balance_due + fee]
                         ELSE b
            IN  /\ Len(reading) < MaxReading
                /\ reading' = Append(reading,
                                     [app |-> "veh", op |-> "cancel", id |-> id,
                                      instance |-> [fb EXCEPT !.status = "cancelled"]])
                /\ last' = Req("load", "veh", id, TRUE, b.vehicle, b.pickup, b.ret)
  /\ UNCHANGED <<now, rateVars, receipts, ceoVars, vehVars>>

\* second half: booking.save(), vehicle.update_status, availability delete
VehCancelStore(i) ==
  /\ i \in DOMAIN reading
  /\ reading[i].app = "veh"
  /\ LET r  == reading[i]
         nb == VehSave(r.instance)
     IN
     /\ vehBookings' = [vehBookings EXCEPT ![r.id] = nb]
     /\ vehicles' = update_status(vehicles, nb.vehicle, "available")
     /\ availability' = SelectSeq(availability, LAMBDA row : row.booking # r.id)
     /\ last' = Req("cancel", "veh", r.id, TRUE, nb.vehicle, nb.pickup, nb.ret)
  /\ reading' = RemoveAt(reading, i)
  /\ UNCHANGED <<now, rateVars, receipts, ceoVars, vehPayments, maintenance, inflight, updates>>

\* ---------------------------------------------------- failing transitions
\* A statement after booking.save() raises (a database error, or the worker
\* dies): the handlers are not wrapped in transaction.atomic and
\* ATOMIC_REQUESTS is not set, so each statement that ran has committed on
\* its own.  `step` is the statement that fails; the client gets an error.
FailSteps == {1, 2}

\* POST /bookings/{id}/cancel/ (ceo): save, [1] history row, [2] car.save
CeoCancelFail(id, step) ==
  /\ id \in DOMAIN ceoBookings
  /\ step \in FailSteps
  /\ can_cancel(ceoBookings[id])
  /\ LET b  == ceoBookings[id]
         nb == CeoSave([b EXCEPT !.status = "cancelled"])
         h  == SignalHistory(id, b.status, nb.status)
     IN
     /\ ceoBookings' = [ceoBookings EXCEPT ![id] = nb]
     /\ cars' = SignalCars(cars, nb.car, b.status, nb.status)
     /\ last' = [ReqH("cancel", "ceo", id, FALSE, b.car, b.start, b.end,
                      IF step = 1 THEN h
                      ELSE Append(h, [booking |-> id, status |-> "cancelled"]))
                   EXCEPT !.why = "error"]
  /\ UNCHANGED <<now, rateVars, receipts, reading, ceoPayments, customer, vehVars>>

\* POST /bookings/{id}/checkin/ (ceo): save, [1] car.save, [2] history row
CeoCheckinFail(id, step) ==
  /\ id \in DOMAIN ceoBookings
  /\ step \in FailSteps
  /\ ceoBookings[id].status = "active"
  /\ LET b  == ceoBookings[id]
         nb == CeoSave([b EXCEPT !.status = "completed"])
         sc == SignalCars(cars, nb.car, b.status, nb.status)
     IN
     /\ ceoBookings' = [ceoBookings EXCEPT ![id] = nb]
     /\ cars' = IF step = 1 THEN sc ELSE [sc EXCEPT ![nb.car] = "available"]
     /\ last' = [ReqH("checkin", "ceo", id, FALSE, b.car, b.start, b.end,
                      SignalHistory(id, b.status, nb.status))
                   EXCEPT !.why = "error"]
  /\ UNCHANGED <<now, rateVars, receipts, reading, ceoPayments, customer, vehVars>>

\* POST /bookings/{id}/cancel_booking/ (vehicle): save,
\* [1] vehicle.update_status, [2] VehicleAvailability delete
VehCancelFail(id, step) ==
  /\ id \in DOMAIN vehBookings
  /\ step \in FailSteps
  /\ vehBookings[id].status \notin {"completed", "cancelled"}
  /\ LET b == vehBookings[id]
         hours_before == (b.pickup - now) * 12
         fee == (b.total_amount * 20) \div 100
         fb  == IF hours_before < 48
                  THEN [b EXCEPT !.late_fee = fee,
                                 !.total_amount = b.total_amount + fee,
                                 !.balance_due = b.balance_due + fee]
                  ELSE b
     IN
     /\ vehBookings' = [vehBookings EXCEPT
                          ![id] = VehSave([fb EXCEPT !.status = "cancelled"])]
     /\ vehicles' = IF step = 1 THEN vehicles
                    ELSE update_status(vehicles, b.vehicle, "available")
     /\ last' = [Req("cancel", "veh", id, FALSE, b.vehicle, b.pickup, b.ret)
                   EXCEPT !.why = "error"]
  /\ UNCHANGED <<now, rateVars, receipts, reading, ceoVars, vehPayments, availability,
                 maintenance, inflight, updates>>

\* ------------------------------------------------------------ rate limit
\* the keys ip:path of the requests the middleware sees
Keys == {1, 2}
\* "100 requests per minute per endpoint"
RateLimit == 100
WindowSeconds == 60

\* RateLimitMiddleware.process_request for a request with key k.  The
\* dictionary is first rebuilt without the entries whose timestamp is 60
\* seconds old or older.  A key that has no entry gets one with count 1 and
\* the current time; a key that has one is refused when its count is
\* greater than 100 and is counted otherwise.
process_request(k) ==
  /\ k \in Keys
  /\ LET kept  == {j \in DOMAIN rateRequests :
                     rateTime - rateRequests[j].timestamp < WindowSeconds}
         clean == [j \in kept |-> rateRequests[j]]
     IN
     IF k \in kept
       THEN IF clean[k].count > RateLimit
              THEN /\ rateRequests' = clean
                   /\ admitted' = admitted
                   /\ last' = [Req("request", "middleware", k, FALSE, 0, 0, 0)
                                 EXCEPT !.why = "Rate limit exceeded"]
              ELSE /\ rateRequests' =
                        [clean EXCEPT ![k].count = clean[k].count + 1]
                   /\ admitted' = [admitted EXCEPT ![k] = admitted[k] + 1]
                   /\ last' = Req("request", "middleware", k, TRUE, 0, 0, 0)
       ELSE /\ rateRequests' =
                 [j \in kept \cup {k} |->
                    IF j = k THEN [count |-> 1, timestamp |-> rateTime]
                    ELSE clean[j]]
            /\ admitted' = [admitted EXCEPT ![k] = 1]
            /\ last' = Req("request", "middleware", k, TRUE, 0, 0, 0)
  /\ UNCHANGED <<now, rateTime, receipts, reading, ceoVars, vehVars>>

\* time passes for the middleware
RateTick ==
  /\ rateTime + StepSeconds <= MaxSeconds
  /\ rateTime' = rateTime + StepSeconds
  /\ last' = Req("tick", "middleware", 0, TRUE, 0, 0, 0)
  /\ UNCHANGED <<now, rateRequests, admitted, receipts, reading, ceoVars, vehVars>>

\* ---------------------------------------------------------- specification
Init ==
  /\ now = 0
  /\ cars = [c \in Cars |-> "available"]
  /\ ceoBookings = <<>>
  /\ ceoPayments = <<>>
  /\ customer = [total_bookings |-> 0, total_spent |-> 0]
  /\ vehicles = [v \in Vehicles |-> "available"]
  /\ vehBookings = <<>>
  /\ vehPayments = <<>>
  /\ availability = <<>>
  /\ maintenance = <<>>
  /\ inflight = <<>>
  /\ updates = 0
  /\ receipts = <<>>
  /\ reading = <<>>
  /\ rateRequests = <<>>
  /\ rateTime = 0
  /\ admitted = [k \in Keys |-> 0]
  /\ last = Req("init", "", 0, TRUE, 0, 0, 0)

\* ceo booking lifecycle
NextCeo ==
  \/ \E r \in Requests : CeoCreate(r[1], r[2], r[3])
  \/ \E id \in DOMAIN ceoBookings, role \in Roles, mail \in MailOutcomes :
        CeoConfirm(id, role, mail)
  \/ \E id \in DOMAIN ceoBookings : CeoCancel(id)
  \/ \E id \in DOMAIN ceoBookings : CeoCheckout(id)
  \/ \E id \in DOMAIN ceoBookings : CeoCheckin(id)
  \/ \E id \in DOMAIN ceoBookings, o \in {"success", "failed", "error"} : CeoVerify(id, o)

\* transition requests of both apps as interleaving halves
NextRace ==
  \/ \E id \in DOMAIN ceoBookings, op \in {"confirm", "cancel"} : CeoLoad(op, id)
  \/ \E i \in DOMAIN reading : CeoStore(i)
  \/ \E id \in DOMAIN vehBookings : VehCancelLoad(id)
  \/ \E i \in DOMAIN reading : VehCancelStore(i)

\* transition requests in which a statement after booking.save() fails
NextFail ==
  \/ \E id \in DOMAIN ceoBookings, step \in FailSteps : CeoCancelFail(id, step)
  \/ \E id \in DOMAIN ceoBookings, step \in FailSteps : CeoCheckinFail(id, step)
  \/ \E id \in DOMAIN vehBookings, step \in FailSteps : VehCancelFail(id, step)

NextCeoUpdate == \E id \in DOMAIN ceoBookings, data \in CeoPatches : CeoUpdate(id, data)

\* vehicle-app booking creation: the two halves of POST /bookings/
NextCreate ==
  \/ \E r \in Requests, st \in CreateStatuses : VehValidate(r[1], r[2], r[3], st)
  \/ \E i \in DOMAIN inflight : VehCreate(i)

\* vehicle-app booking lifecycle
NextVeh ==
  \/ NextCreate
  \/ \E id \in DOMAIN vehBookings : VehCancel(id)
  \/ \E id \in DOMAIN vehBookings : VehComplete(id)
  \/ UpdateVehicleStatuses

NextPay == \E id \in DOMAIN vehBookings, a \in Amounts : VehPayment(id, a)

\* PUT/PATCH and DELETE of vehicle-app payments
NextPayEdit ==
  \/ \E k \in DOMAIN vehPayments, a \in Amounts : VehPaymentUpdate(k, a)
  \/ \E k \in DOMAIN vehPayments : VehPaymentDelete(k)

\* requests passing through RateLimitMiddleware
NextRate ==
  \/ \E k \in Keys : process_request(k)
  \/ RateTick

NextMaint ==
  \/ \E r \in MaintRequests : MaintenanceCreate(r[1], r[2])
  \/ \E m \in DOMAIN maintenance : CompleteMaintenance(m)

NextUpdate == \E id \in DOMAIN vehBookings, data \in VehPatches : VehUpdate(id, data)

\* creation and PUT/PATCH of bookings, the requests that go through the
\* booking serializers; the overlap filters do not read the clock
NextCheck ==
  \/ \E r \in Requests : CeoCreate(r[1], r[2], r[3])
  \/ NextCeoUpdate
  \/ NextCreate
  \/ NextUpdate

Next ==
  \/ NextCeo \/ NextCeoUpdate \/ NextVeh \/ NextPay \/ NextMaint \/ NextUpdate
  \/ NextRace \/ NextFail \/ NextPayEdit \/ NextRate \/ Tick

Spec == Init /\ [][Next]_vars

\* the ceo app alone and parts of the vehicle app alone: the two apps share
\* no table, only the clock
SpecCeo    == Init /\ [][NextCeo \/ Tick]_vars
SpecCreate == Init /\ [][NextCreate \/ Tick]_vars
SpecVeh    == Init /\ [][NextVeh \/ Tick]_vars
SpecPay    == Init /\ [][NextVeh \/ NextPay \/ Tick]_vars
SpecMaint  == Init /\ [][NextCreate \/ NextMaint \/ Tick]_vars
SpecCheck  == Init /\ [][NextCheck]_vars
\* vehicle-app bookings with creation, update and deletion of their payments
SpecPayments == Init /\ [][NextCreate \/ NextPay \/ NextPayEdit \/ Tick]_vars
\* the rate limiter alone: it shares no state with the views
SpecRate == Init /\ [][NextRate]_vars
\* both lifecycles with transition requests that fail half way
SpecFail == Init /\ [][NextCeo \/ NextVeh \/ NextFail \/ Tick]_vars
\* creation and concurrent transition requests
SpecRace ==
  Init /\ [][(\E r \in Requests : CeoCreate(r[1], r[2], r[3])) \/ NextCreate
               \/ NextRace \/ Tick]_vars
\* vehicle-app creation and cancellation together with PUT/PATCH of bookings
SpecVehUpdate ==
  Init /\ [][NextCreate \/ (\E id \in DOMAIN vehBookings : VehCancel(id))
               \/ NextUpdate \/ Tick]_vars

\* ================================================================ claims
\* the half-open ranges [s1, e1) and [s2, e2) share an instant
RangesOverlap(s1, e1, s2, e2) == s1 < e2 /\ e1 > s2

CheckAndInsertSerializable ==
  \A i \in DOMAIN vehBookings : \A j \in DOMAIN vehBookings :
     (/\ i < j
      /\ vehBookings[i].vehicle = vehBookings[j].vehicle
      /\ {vehBookings[i].status, vehBookings[j].status} \subseteq
           {"confirmed", "in_progress"})
     => (vehBookings[i].ret <= vehBookings[j].pickup
         \/ vehBookings[j].ret <= vehBookings[i].pickup)

AvailabilityCheckExact ==
  [][ /\ (last'.app = "ceo" /\ last'.op = "update" /\ last'.why # "") =>
           /\ last'.why \in {"ok", "conflict"}
           /\ last'.ok <=> last'.why = "ok"
           /\ last'.why = "conflict" <=>
                \E i \in DOMAIN ceoBookings :
                    /\ ceoBookings[i].car = last'.res
                    /\ ceoBookings[i].status \in {"confirmed", "active"}
                    /\ ceoBookings[i].start < last'.end
                    /\ ceoBookings[i].end > last'.start
      /\ (/\ last'.app = "veh"
          /\ last'.op \in {"validate", "update"}
          /\ last'.why \in {"ok", "conflict"}) =>
           /\ last'.ok <=> last'.why = "ok"
           /\ last'.why = "conflict" <=>
                \E i \in DOMAIN vehBookings :
                    /\ vehBookings[i].vehicle = last'.res
                    /\ vehBookings[i].status \in {"confirmed", "in_progress"}
                    /\ vehBookings[i].pickup < last'.end
                    /\ vehBookings[i].ret > last'.start
    ]_vars

\* C4 witness: a vehicle creation request was accepted for a range that
\* starts exactly where a blocking booking of the same vehicle ends
TouchingRangeAccepted ==
  /\ last.app = "veh" /\ last.op = "validate" /\ last.why = "ok"
  /\ \E i \in DOMAIN vehBookings :
        /\ vehBookings[i].vehicle = last.res
        /\ vehBookings[i].status \in {"confirmed", "in_progress"}
        /\ vehBookings[i].ret = last.start

\* C5: a vehicle creation request never passes validation while a
\* maintenance window of that vehicle overlaps the requested range.
MaintenanceBlocksCreation ==
  (last.app = "veh" /\ last.op = "validate" /\ last.ok) =>
     MaintenanceWindows(last.res, last.start, last.end) = {}

SettlingPaymentConfirms ==
  [][ (last'.op = "payment" /\ last'.amount = vehBookings[last'.id].balance_due)
      => /\ last'.ok
         /\ vehBookings'[last'.id].payment_status = "completed"
         /\ vehBookings[last'.id].status = "pending"
              => vehBookings'[last'.id].status = "confirmed"
         /\ vehPayments' = Append(vehPayments, [booking |-> last'.id,
                                                amount  |-> last'.amount])
    ]_vars

SettlingPaymentHasReceipt ==
  [][ (last'.op = "payment" /\ vehBookings[last'.id].balance_due - last'.amount = 0)
      => /\ Len(vehPayments') = Len(vehPayments) + 1
         /\ vehPayments'[Len(vehPayments')].booking = last'.id
         /\ \E k \in DOMAIN receipts' :
               /\ k \notin DOMAIN receipts
               /\ receipts'[k].booking = last'.id
               /\ receipts'[k].payment = Len(vehPayments')
    ]_vars

\* C18: every stored booking has total_amount = subtotal + tax_amount + fees,
\* the fees being the late or cancellation fee recorded on the booking (the
\* ceo booking carries no fee; the vehicle booking keeps tax_amount at its
\* default 0 and records the fee in late_fee).
TotalIsSubtotalTaxFees ==
  /\ \A i \in DOMAIN ceoBookings :
       ceoBookings[i].total_amount =
         ceoBookings[i].subtotal + ceoBookings[i].tax_amount
  /\ \A i \in DOMAIN vehBookings :
       vehBookings[i].total_amount =
         vehBookings[i].subtotal + 0 + vehBookings[i].late_fee

\* C19: the stored duration of every booking (duration_days in the ceo app,
\* rental_days in the vehicle app) is max(1, whole days between start and
\* end), so it is at least 1.
DurationAtLeastOneDay ==
  /\ \A i \in DOMAIN ceoBookings :
       ceoBookings[i].duration_days =
         Max(1, Days(ceoBookings[i].start, ceoBookings[i].end))
  /\ \A i \in DOMAIN vehBookings :
       vehBookings[i].rental_days =
         Max(1, Days(vehBookings[i].pickup, vehBookings[i].ret))

\* C20: a booking that has just been created has subtotal = daily rate x
\* duration, tax_amount = 10 % of the subtotal and total_amount = subtotal +
\* tax_amount (the vehicle booking keeps tax_amount at its default 0).
CreationPricing ==
  (last.op = "create" /\ last.ok) =>
    /\ last.app = "ceo" =>
         LET b == ceoBookings[last.id] IN
           /\ b.subtotal = b.daily_rate * b.duration_days
           /\ b.tax_amount = (b.subtotal * 10) \div 100
           /\ b.total_amount = b.subtotal + b.tax_amount
    /\ last.app = "veh" =>
         LET b          == vehBookings[last.id]
             tax_amount == 0
         IN
           /\ b.subtotal = b.daily_rate * b.rental_days
           /\ tax_amount = (b.subtotal * 10) \div 100
           /\ b.total_amount = b.subtotal + tax_amount

RECURSIVE CompletedCount(_)
CompletedCount(n) ==
  IF n = 0 THEN 0
  ELSE CompletedCount(n - 1)
       + (IF ceoBookings[n].status = "completed" THEN 1 ELSE 0)

RECURSIVE CompletedAmount(_)
CompletedAmount(n) ==
  IF n = 0 THEN 0
  ELSE CompletedAmount(n - 1)
       + (IF ceoBookings[n].status = "completed"
            THEN ceoBookings[n].total_amount ELSE 0)

NotificationFailureSwallowed ==
  [][ (/\ last'.op = "confirm" /\ last'.app = "ceo" /\ last'.mail = "failed"
       /\ ceoBookings[last'.id].status = "pending")
      => /\ last'.ok
         /\ ceoBookings'[last'.id].status = "confirmed"
         /\ \E k \in DOMAIN last'.history :
               last'.history[k] = [booking |-> last'.id, status |-> "confirmed"]
         /\ \E k \in DOMAIN last'.logs :
               last'.logs[k] = [log |-> "EmailLog", status |-> "failed"]
    ]_vars

\* a confirm during which send_mail failed has been answered with success
ConfirmedDespiteMailFailure ==
  /\ last.op = "confirm" /\ last.app = "ceo" /\ last.mail = "failed" /\ last.ok
  /\ ceoBookings[last.id].status = "confirmed"

RECURSIVE PaymentsOf(_, _)
PaymentsOf(id, n) ==
  IF n = 0 THEN 0
  ELSE PaymentsOf(id, n - 1)
       + (IF vehPayments[n].booking = id THEN vehPayments[n].amount ELSE 0)

\* C28: after any sequence of payment create, update and delete requests
\* the amount_paid of every vehicle-app booking is the sum of the amounts of
\* its stored Payment rows, and its balance_due is total_amount minus that
\* sum.
AmountPaidIsSumOfPayments ==
  \A i \in DOMAIN vehBookings :
     /\ vehBookings[i].amount_paid = PaymentsOf(i, Len(vehPayments))
     /\ vehBookings[i].balance_due =
          vehBookings[i].total_amount - PaymentsOf(i, Len(vehPayments))

\* C29: a confirm, cancel, checkout or checkin request on a ceo booking that
\* is rejected because its guard fails changes nothing: the bookings, the
\* car statuses, the payments and the customer are as before, and the
\* request appends no BookingHistory, EmailLog or SMSLog row.
RejectedTransitionChangesNothing ==
  [][ (/\ last'.app = "ceo"
       /\ last'.op \in {"confirm", "cancel", "checkout", "checkin"}
       /\ ~last'.ok)
      => /\ UNCHANGED <<ceoBookings, cars, ceoPayments, customer>>
         /\ last'.history = <<>>
         /\ last'.logs = <<>>
    ]_vars

\* a transition request on a ceo booking has just been rejected
TransitionRejected ==
  /\ last.app = "ceo" /\ ~last.ok
  /\ last.op \in {"confirm", "cancel", "checkout", "checkin"}
  /\ last.id \in DOMAIN ceoBookings

\* C30: for every key ip:path at most 100 requests pass process_request
\* within the minute that starts with the key's first counted request, and a
\* request that arrives in that minute after 100 have passed is refused with
\* 'Rate limit exceeded'.
AtMostHundredPerMinute ==
  [][ /\ \A k \in Keys : admitted'[k] <= RateLimit
      /\ \A k \in Keys :
           (/\ last'.op = "request" /\ last'.id = k
            /\ k \in DOMAIN rateRequests
            /\ rateTime - rateRequests[k].timestamp < WindowSeconds
            /\ admitted[k] >= RateLimit)
           => (~last'.ok /\ last'.why = "Rate limit exceeded")
    ]_vars

====
